---- MODULE Spec2Model ----
(***************************************************************************)
(* Model of scrapper.py: one run of the script (fetch the page, locate the *)
(* table, read the header row, flatten the data rows into Solutions, write *)
(* the CSV file) and the pure function get_platform_name.                  *)
(*                                                                         *)
(* Text is a sequence of one-character strings, so that joining, the       *)
(* regular expression and the written file are computed character by       *)
(* character.  An HTML row is what find_all returns on it: its img tags    *)
(* and its td cells, each cell with its text and its a tags in document    *)
(* order.                                                                  *)
(***************************************************************************)
EXTENDS Integers, Sequences, FiniteSets

VARIABLES
    net,                      \* outcome of requests.get: "ok", "refused", "stall"
    status,                   \* HTTP status of the response
    html,                     \* the response body: [hasTable, rows]
    gets,                     \* number of GET requests issued
    pc,                       \* position of the script
    err,                      \* the exception that ended the run, or "none"
    rows,                     \* table_rows, as returned by get_table_rows
    ordered_platforms_names,  \* get_table_data's header names
    idx,                      \* number of data rows the for loop has consumed
    all_solutions,            \* get_table_data's accumulator
    origin,                   \* history: <<row, column, link>> of each Solution
    solutions,                \* __main__'s solutions
    csv_content,              \* __main__'s csv_content
    file,                     \* ./clouds.csv: [opened, content]
    alt_desc,                 \* get_platform_name's argument
    platform_name,            \* get_platform_name's result
    called                    \* whether get_platform_name has returned

vars == <<net, status, html, gets, pc, err, rows, ordered_platforms_names, idx,
          all_solutions, origin, solutions, csv_content, file,
          alt_desc, platform_name, called>>

runVars == <<net, status, html, gets, pc, err, rows, ordered_platforms_names, idx,
             all_solutions, origin, solutions, csv_content, file>>

nameVars == <<alt_desc, platform_name, called>>

----------------------------------------------------------------------------
(* Bounds of the explored inputs.                                          *)

MaxRows == 2

MaxCols == 2

MaxLinks == 2

MaxAltBody == 3

----------------------------------------------------------------------------
(* Text helpers.                                                           *)

Max(S) == CHOOSE x \in S : \A y \in S : y <= x

Comma == <<",">>

Newline == <<"\n">>

Icon == <<"I","c","o","n">>

Log == <<"L","o","g">>

Logo == <<"L","o","g","o">>

\* The characters Python's \s matches (ASCII part).
WhitespaceChars == {" ", "\t", "\n", "\r", "\f"}

\* The alternation (Icon|Log|Logo) of _platform_name_re.
PlatformWords == {Icon, Log, Logo}

\* The '.' of a pattern compiled without DOTALL: any character but a newline.
DotMatches(c) == c # "\n"

\* '$' without MULTILINE: at the end of the string, or before a newline that
\* ends the string.
DollarMatches(rest) == rest = <<>> \/ rest = Newline

\* Whether s, from position k+1 on, matches \s+(Icon|Log|Logo)$.
TailMatches(s, k) ==
    \E m \in 1..(Len(s) - k) :
        /\ \A j \in (k + 1)..(k + m) : s[j] \in WhitespaceChars
        /\ \E w \in PlatformWords :
              /\ k + m + Len(w) <= Len(s)
              /\ SubSeq(s, k + m + 1, k + m + Len(w)) = w
              /\ DollarMatches(SubSeq(s, k + m + Len(w) + 1, Len(s)))

\* The lengths group 1 can take in a match of _platform_name_re at the start
\* of s: (.*) takes k characters, none a newline, and the rest matches.
GroupOneLengths(s) ==
    {k \in 0..Len(s) : /\ \A j \in 1..k : DotMatches(s[j])
                       /\ TailMatches(s, k)}

\* re.match(...).group(1): (.*) is greedy, so the backtracking matcher
\* returns the longest prefix from which the rest of the pattern matches.
GroupOne(s) == SubSeq(s, 1, Max(GroupOneLengths(s)))

\* get_platform_name(alt_desc)
get_platform_name(s) ==
    IF GroupOneLengths(s) # {} THEN GroupOne(s) ELSE s

----------------------------------------------------------------------------
(* Inputs of get_platform_name: a body of name characters, blanks and      *)
(* newlines, followed by one of a few endings.                             *)

BodyChars == {"A", " ", "\n"}

AltTails == { <<>>, Icon, Log, Logo,
              <<"i","c","o","n">>,          \* wrong case
              <<"L","o","g","o","s">>,      \* word not at the end
              <<"L","o","g","o","\n">>,     \* word before a final newline
              <<"I","c","o","n"," ">> }     \* word before a final blank

AltInputs ==
    { b \o t : b \in UNION {[1..n -> BodyChars] : n \in 0..MaxAltBody},
               t \in AltTails }

----------------------------------------------------------------------------
(* Texts of the explored pages.                                            *)

AltList == << <<"A","W","S"," ","I","c","o","n">>,
              <<"A","z","u","r","e">>,
              <<"G","C","P"," ","L","o","g","o">>,
              <<"I","B","M"," ","L","o","g">> >>

CategoryList == << <<"C","o","m","p","u","t","e">>,
                   <<"S","t","o","r","a","g","e">>,
                   <<"D","a","t","a">> >>

ServiceList == << <<"V","M">>,
                  <<"O","b","j","e","c","t",","," ","B","l","o","c","k">>,
                  <<"S","Q","L">> >>

Pick(list, j) == list[((j - 1) % Len(list)) + 1]

UrlX == <<"h","t","t","p",":","/","/","x">>

UrlY == <<"h","t","t","p",":","/","/","y">>

\* The a tags a cell can hold: with and without visible text, with and
\* without an href attribute.
LinkKinds ==
    { [text |-> <<"E","C","2">>, hasHref |-> TRUE,  href |-> UrlX],
      [text |-> <<"S","3">>,     hasHref |-> TRUE,  href |-> UrlY],
      [text |-> <<>>,            hasHref |-> TRUE,  href |-> UrlX],
      [text |-> <<"E","C","2">>, hasHref |-> FALSE, href |-> <<>>],
      [text |-> <<>>,            hasHref |-> FALSE, href |-> <<>>] }

\* The links of cell c of row r, in document order.
LinksAt(placed, r, c) ==
    LET At(p) == p.r = r /\ p.c = c
        sel == SelectSeq(placed, At)
    IN  [i \in 1..Len(sel) |-> sel[i].link]

\* The header row: nimg images, the one at index noalt (if any) without an
\* alt attribute, and one cell.
HeaderRow(nimg, noalt, placed) ==
    [imgs  |-> [j \in 1..nimg |->
                  [hasAlt |-> j # noalt,
                   alt    |-> IF j # noalt THEN Pick(AltList, j) ELSE <<>>]],
     cells |-> << [text |-> <<>>, links |-> LinksAt(placed, 0, 1)] >>]

\* Data row r with n cells: category, service, then the platform columns.
DataRow(r, n, placed) ==
    [imgs  |-> <<>>,
     cells |-> [c \in 1..n |->
                  [text  |-> IF c = 1 THEN Pick(CategoryList, r)
                             ELSE IF c = 2 THEN Pick(ServiceList, r)
                             ELSE <<>>,
                   links |-> LinksAt(placed, r, c)]]]

\* The cells that can hold links: <<0, 1>> is the header row's cell,
\* <<r, c>> cell c of data row r, lens[r] being the number of cells of row r.
CellPositions(lens) ==
    { <<0, 1>> } \cup
    { <<r, c>> \in (1..Len(lens)) \X (1..(2 + MaxCols)) : c <= lens[r] }

\* The ways to place up to MaxLinks links in the cells of a table, listed in
\* document order.
PlacedLinks(lens) ==
    LET Placements == { [r |-> q[1], c |-> q[2], link |-> k] :
                          q \in CellPositions(lens), k \in LinkKinds }
    IN  { placed \in UNION {[1..n -> Placements] : n \in 0..MaxLinks} :
            \A i \in 1..(Len(placed) - 1) :
               \/ placed[i].r < placed[i + 1].r
               \/ placed[i].r = placed[i + 1].r /\ placed[i].c <= placed[i + 1].c }

\* The numbers of cells of the data rows: up to MaxRows rows of 0 to
\* 2 + MaxCols cells.
RowShapes == UNION {[1..n -> 0..(2 + MaxCols)] : n \in 0..MaxRows}

\* table.find_all('tr') of a table with a header row and data rows.
TableRows(nimg, noalt, lens, placed) ==
    <<HeaderRow(nimg, noalt, placed)>> \o
      [r \in 1..Len(lens) |-> DataRow(r, lens[r], placed)]

\* A page without the table.
NoPage == [hasTable |-> FALSE, rows |-> <<>>]

StatusCodes == {200, 404}

----------------------------------------------------------------------------
(* Solution and the serialisation of __main__.                             *)

\* Solution.__init__
Solution(category, service, platform, name, description) ==
    [category |-> category, service |-> service, platform |-> platform,
     name |-> name, description |-> description]

\* Solution.__str__: '%s,%s,%s,%s,%s'
Str(solution) ==
    solution.category \o Comma \o solution.service \o Comma \o
    solution.platform \o Comma \o solution.name \o Comma \o
    solution.description

\* A join that ends every part with the separator instead of separating
\* the parts: the variant the serialisation properties must tell apart.
RECURSIVE JoinTerminated(_, _)
JoinTerminated(sep, parts) ==
    IF Len(parts) = 0 THEN <<>>
    ELSE parts[1] \o sep \o JoinTerminated(sep, Tail(parts))

\* sep.join(parts)
RECURSIVE Join(_, _)
Join(sep, parts) ==
    IF Len(parts) = 0 THEN <<>>
    ELSE IF Len(parts) = 1 THEN parts[1]
    ELSE parts[1] \o sep \o Join(sep, Tail(parts))

csv_headers == << <<"C","a","t","e","g","o","r","y">>,
                  <<"S","e","r","v","i","c","e">>,
                  <<"P","l","a","t","f","o","r","m">>,
                  <<"S","o","l","u","t","i","o","n">>,
                  <<"D","e","s","c","r","i","p","t","i","o","n">> >>

----------------------------------------------------------------------------
(* get_table_headers and get_table_data.                                   *)

\* An operation's outcome: the exception it raised ("none" if it returned)
\* and its value.
Raised(e) == [err |-> e, value |-> <<>>]

Returned(v) == [err |-> "none", value |-> v]

\* get_table_headers(rows): rows[0] raises IndexError on an empty list,
\* img_tag['alt'] raises KeyError on an image without the attribute.
get_table_headers(rs) ==
    IF Len(rs) = 0 THEN Raised("IndexError")
    ELSE LET img_tags == rs[1].imgs
         IN  IF \E j \in 1..Len(img_tags) : ~img_tags[j].hasAlt
             THEN Raised("KeyError")
             ELSE Returned([j \in 1..Len(img_tags) |->
                              get_platform_name(img_tags[j].alt)])

\* The slice columns[1:], which would take the service cell for a platform
\* column.
SecondCell == 3 - 1

\* columns = columns[2:] : the index (from 1) of the first platform cell.
FirstPlatformCell == 3

\* The a tags of the platform columns in the order the two inner loops visit
\* them: i is enumerate's index of the column, cell the cell's index in the
\* row, l the link's index in the cell.
RECURSIVE ColumnLinks(_, _)
ColumnLinks(columns, cell) ==
    IF cell > Len(columns) THEN <<>>
    ELSE [l \in 1..Len(columns[cell].links) |->
            [i |-> cell - FirstPlatformCell, cell |-> cell, l |-> l,
             link |-> columns[cell].links[l]]]
         \o ColumnLinks(columns, cell + 1)

\* A filter that keeps every link, as if the test on the text were absent.
AnyLink(link) == TRUE

\* if len(unparsed_solution.text)
HasText(link) == Len(link.text) # 0

\* insert(0, parsed_solution) in place of append.
InsertSolution(list, parsed_solution) == <<parsed_solution>> \o list

\* all_solutions.append(parsed_solution)
AddSolution(list, parsed_solution) == Append(list, parsed_solution)

\* The body of the two inner loops from the k-th link on.  acc is
\* [err, sols, origins]; the first exception ends the scan.  The keyword
\* arguments of Solution(...) are evaluated in order, so the platform lookup
\* (IndexError) comes before the href lookup (KeyError).
RECURSIVE ScanLinks(_, _, _, _, _, _, _)
ScanLinks(items, k, r, category, service, names, acc) ==
    IF k > Len(items) THEN acc
    ELSE LET it == items[k]
         IN  IF ~HasText(it.link)
             THEN ScanLinks(items, k + 1, r, category, service, names, acc)
             ELSE IF it.i >= Len(names)
             THEN [acc EXCEPT !.err = "IndexError"]
             ELSE IF ~it.link.hasHref
             THEN [acc EXCEPT !.err = "KeyError"]
             ELSE ScanLinks(items, k + 1, r, category, service, names,
                    [acc EXCEPT
                       !.sols = AddSolution(@,
                                  Solution(category, service, names[it.i + 1],
                                           it.link.text, it.link.href)),
                       !.origins = AddSolution(@, <<r, it.cell, it.l>>)])

\* One iteration of "for row in rows" on data row r, from the accumulator
\* acc: columns[0] and columns[1] raise IndexError on a short row.
ScanRow(row, r, names, acc) ==
    LET columns == row.cells
    IN  IF Len(columns) < 2 THEN [acc EXCEPT !.err = "IndexError"]
        ELSE ScanLinks(ColumnLinks(columns, FirstPlatformCell), 1, r,
                       columns[1].text, columns[2].text, names, acc)

----------------------------------------------------------------------------
(* The run of the script.                                                  *)

Fail(e) == pc' = "failed" /\ err' = e

Init ==
    /\ \/ /\ net \in {"refused", "stall"}
          /\ status = 0
          /\ html = NoPage
       \/ /\ net = "ok"
          /\ status \in StatusCodes
          /\ \/ html = NoPage
             \/ html = [hasTable |-> TRUE, rows |-> <<>>]
             \/ \E nimg \in 0..MaxCols : \E noalt \in 0..nimg :
                   \E lens \in RowShapes : \E placed \in PlacedLinks(lens) :
                      html = [hasTable |-> TRUE,
                              rows |-> TableRows(nimg, noalt, lens, placed)]
    /\ gets = 0
    /\ pc = "start"
    /\ err = "none"
    /\ rows = <<>>
    /\ ordered_platforms_names = <<>>
    /\ idx = 0
    /\ all_solutions = <<>>
    /\ origin = <<>>
    /\ solutions = <<>>
    /\ csv_content = <<>>
    /\ file = [opened |-> FALSE, content |-> <<>>]
    /\ alt_desc = <<>>
    /\ platform_name = <<>>
    /\ called = FALSE

\* requests.get(webpage): the request is sent; the call has no timeout.
SendGet ==
    /\ pc = "start"
    /\ gets' = gets + 1
    /\ pc' = "requesting"
    /\ UNCHANGED <<net, status, html, err, rows, ordered_platforms_names, idx,
                   all_solutions, origin, solutions, csv_content, file,
                   nameVars>>

\* requests.get raises: the connection could not be made.
GetRaises ==
    /\ pc = "requesting"
    /\ net = "refused"
    /\ Fail("ConnectionError")
    /\ UNCHANGED <<net, status, html, gets, rows, ordered_platforms_names, idx,
                   all_solutions, origin, solutions, csv_content, file,
                   nameVars>>

\* The rest of get_table_rows once a response has arrived, whatever its
\* status: parse .content, find the table, return its rows.  find returns
\* None when there is no such table and None.find_all raises AttributeError.
GetTableRows ==
    /\ pc = "requesting"
    /\ net = "ok"
    /\ IF html.hasTable
       THEN rows' = html.rows /\ pc' = "headers" /\ err' = err
       ELSE rows' = rows /\ Fail("AttributeError")
    /\ UNCHANGED <<net, status, html, gets, ordered_platforms_names, idx,
                   all_solutions, origin, solutions, csv_content, file,
                   nameVars>>

\* get_table_data, up to the for loop.
GetTableHeaders ==
    /\ pc = "headers"
    /\ LET res == get_table_headers(rows)
       IN  IF res.err = "none"
           THEN /\ ordered_platforms_names' = res.value
                /\ pc' = "loop"
                /\ err' = err
           ELSE /\ ordered_platforms_names' = ordered_platforms_names
                /\ Fail(res.err)
    /\ UNCHANGED <<net, status, html, gets, rows, idx, all_solutions, origin,
                   solutions, csv_content, file, nameVars>>

\* One iteration of get_table_data's for loop over rows[1:].
ProcessRow ==
    /\ pc = "loop"
    /\ idx < Len(rows) - 1
    /\ LET res == ScanRow(rows[idx + 2], idx + 1, ordered_platforms_names,
                          [err |-> "none", sols |-> all_solutions,
                           origins |-> origin])
       IN  /\ all_solutions' = res.sols
           /\ origin' = res.origins
           /\ IF res.err = "none"
              THEN idx' = idx + 1 /\ pc' = pc /\ err' = err
              ELSE idx' = idx /\ Fail(res.err)
    /\ UNCHANGED <<net, status, html, gets, rows, ordered_platforms_names,
                   solutions, csv_content, file, nameVars>>

\* return all_solutions, through get_all_solutions, into solutions.
ReturnSolutions ==
    /\ pc = "loop"
    /\ idx = Len(rows) - 1
    /\ solutions' = all_solutions
    /\ pc' = "returned"
    /\ UNCHANGED <<net, status, html, gets, err, rows, ordered_platforms_names,
                   idx, all_solutions, origin, csv_content, file, nameVars>>

\* csv_content = '\n'.join([str(solution) for solution in solutions])
JoinContent ==
    /\ pc = "returned"
    /\ csv_content' = Join(Newline, [k \in 1..Len(solutions) |-> Str(solutions[k])])
    /\ pc' = "joined"
    /\ UNCHANGED <<net, status, html, gets, err, rows, ordered_platforms_names,
                   idx, all_solutions, origin, solutions, file, nameVars>>

\* The file opened on every exit path of the extraction, as a finally block
\* around it would do.
ReadyOrFailed == pc \in {"joined", "failed"}

\* Where the script opens its output file.
ReadyToOpen == pc = "joined"

\* open(output_file, 'w'): creates or truncates the file.
OpenFile ==
    /\ ReadyToOpen
    /\ file' = [opened |-> TRUE, content |-> <<>>]
    /\ pc' = "opened"
    /\ UNCHANGED <<net, status, html, gets, err, rows, ordered_platforms_names,
                   idx, all_solutions, origin, solutions, csv_content, nameVars>>

\* f.write(','.join(csv_headers))
WriteHeaders ==
    /\ pc = "opened"
    /\ file' = [file EXCEPT !.content = @ \o Join(Comma, csv_headers)]
    /\ pc' = "wrote_headers"
    /\ UNCHANGED <<net, status, html, gets, err, rows, ordered_platforms_names,
                   idx, all_solutions, origin, solutions, csv_content, nameVars>>

\* f.write('\n')
WriteNewline ==
    /\ pc = "wrote_headers"
    /\ file' = [file EXCEPT !.content = @ \o Newline]
    /\ pc' = "wrote_newline"
    /\ UNCHANGED <<net, status, html, gets, err, rows, ordered_platforms_names,
                   idx, all_solutions, origin, solutions, csv_content, nameVars>>

\* f.write(csv_content), and the end of the with block.
WriteContent ==
    /\ pc = "wrote_newline"
    /\ file' = [file EXCEPT !.content = @ \o csv_content]
    /\ pc' = "done"
    /\ UNCHANGED <<net, status, html, gets, err, rows, ordered_platforms_names,
                   idx, all_solutions, origin, solutions, csv_content, nameVars>>

Next ==
    \/ SendGet
    \/ GetRaises
    \/ GetTableRows
    \/ GetTableHeaders
    \/ ProcessRow
    \/ ReturnSolutions
    \/ JoinContent
    \/ OpenFile
    \/ WriteHeaders
    \/ WriteNewline
    \/ WriteContent

Spec == Init /\ [][Next]_vars

----------------------------------------------------------------------------
(* get_platform_name on its own, applied to each input of AltInputs.       *)

InitName ==
    /\ net = "stall"
    /\ status = 0
    /\ html = NoPage
    /\ gets = 0
    /\ pc = "start"
    /\ err = "none"
    /\ rows = <<>>
    /\ ordered_platforms_names = <<>>
    /\ idx = 0
    /\ all_solutions = <<>>
    /\ origin = <<>>
    /\ solutions = <<>>
    /\ csv_content = <<>>
    /\ file = [opened |-> FALSE, content |-> <<>>]
    /\ alt_desc \in AltInputs
    /\ platform_name = <<>>
    /\ called = FALSE

CallGetPlatformName ==
    /\ ~called
    /\ platform_name' = get_platform_name(alt_desc)
    /\ called' = TRUE
    /\ UNCHANGED <<alt_desc, runVars>>

NextName == CallGetPlatformName

SpecName == InitName /\ [][NextName]_vars

----------------------------------------------------------------------------
(* Properties.  They are stated on the page as served (html), not on the   *)
(* script's own copies of it.                                              *)

Table == html.rows

DataRowCount == IF Len(Table) = 0 THEN 0 ELSE Len(Table) - 1

\* The cells of data row r (r from 1).
Cells(r) == Table[r + 1].cells

HeaderImgs == Table[1].imgs

\* get_table_data has been called, and has returned or raised.
DataCalled == net = "ok" /\ html.hasTable /\ pc \notin {"start", "requesting"}

DataFinished == DataCalled /\ pc \notin {"headers", "loop"}

DataReturned ==
    pc \in {"returned", "joined", "opened", "wrote_headers", "wrote_newline", "done"}

\* <<row, cell, link>> of every hyperlink with visible text in a platform
\* column of a data row.
TextLinkPositions ==
    { <<r, c, l>> \in
        (1..DataRowCount) \X (3..(2 + MaxCols)) \X (1..MaxLinks) :
        /\ c <= Len(Cells(r))
        /\ l <= Len(Cells(r)[c].links)
        /\ Len(Cells(r)[c].links[l].text) > 0 }

\* The shape C1 assumes of the table.
WellFormedTable ==
    /\ html.hasTable
    /\ Len(Table) >= 1
    /\ \A r \in 1..DataRowCount :
          /\ Len(Cells(r)) >= 2
          /\ Len(Cells(r)) - 2 <= Len(HeaderImgs)
    /\ \A r \in 1..Len(Table) : \A c \in 1..Len(Table[r].cells) :
          \A l \in 1..Len(Table[r].cells[c].links) :
             Table[r].cells[c].links[l].hasHref

HeaderImgsHaveAlt == \A j \in 1..Len(HeaderImgs) : HeaderImgs[j].hasAlt

\* What C1 says get_table_data returns.
OneRecordPerTextLink ==
    /\ DataReturned
    /\ err = "none"
    /\ Len(solutions) = Cardinality(TextLinkPositions)
    /\ { origin[k] : k \in 1..Len(origin) } = TextLinkPositions
    /\ \A k \in 1..Len(solutions) : Len(solutions[k].name) > 0

\* C1, as stated: for every table of a header row and data rows of at least
\* two cells, whose platform columns are all covered by a header image and
\* whose hyperlinks all carry an href, get_table_data returns one Record per
\* hyperlink with visible text in the platform columns of the data rows, and
\* none for other hyperlinks.
C1_OneRecordPerTextLink_AsStated ==
    (WellFormedTable /\ DataFinished) => OneRecordPerTextLink

\* C1, amended: the same, for tables whose header images all carry an alt
\* attribute.
C1_OneRecordPerTextLink ==
    (WellFormedTable /\ HeaderImgsHaveAlt /\ DataFinished) => OneRecordPerTextLink

\* A well-formed table with a text link and an empty-text link in platform
\* columns, a link in the header row or in a first cell, scanned to the end.
C1_Witness ==
    /\ WellFormedTable /\ HeaderImgsHaveAlt /\ DataFinished
    /\ Len(solutions) = 1
    /\ \E r \in 1..DataRowCount : \E c \in 3..Len(Cells(r)) :
          \E l \in 1..Len(Cells(r)[c].links) : Len(Cells(r)[c].links[l].text) = 0

Before(o1, o2) ==
    \/ o1[1] < o2[1]
    \/ o1[1] = o2[1] /\ o1[2] < o2[2]
    \/ o1[1] = o2[1] /\ o1[2] = o2[2] /\ o1[3] < o2[3]

\* One line of the output file: the five fields joined by commas.
CsvLine(rec) ==
    rec.category \o <<",">> \o rec.service \o <<",">> \o rec.platform
      \o <<",">> \o rec.name \o <<",">> \o rec.description

\* The lines of the first n Records, separated by newlines.
RECURSIVE CsvLines(_, _)
CsvLines(recs, n) ==
    IF n = 0 THEN <<>>
    ELSE IF n = 1 THEN CsvLine(recs[1])
    ELSE CsvLines(recs, n - 1) \o <<"\n">> \o CsvLine(recs[n])

HeaderLine ==
    <<"C","a","t","e","g","o","r","y",",","S","e","r","v","i","c","e",",",
      "P","l","a","t","f","o","r","m",",","S","o","l","u","t","i","o","n",",",
      "D","e","s","c","r","i","p","t","i","o","n">>

\* Where the k-th Record's line starts in the file, counted from 0.
RECURSIVE LineStart(_, _)
LineStart(recs, k) ==
    IF k = 1 THEN Len(HeaderLine) + 1
    ELSE LineStart(recs, k - 1) + Len(CsvLine(recs[k - 1])) + 1

\* C2: the Records are in row, then platform column, then link order, and
\* the lines of the written file are the Records' lines in that same order,
\* one line per Record.
C2_RecordOrder ==
    /\ Len(origin) = Len(all_solutions)
    /\ \A a \in 1..Len(origin) : \A b \in 1..Len(origin) :
          a < b => Before(origin[a], origin[b])
    /\ pc = "done" =>
          /\ \A k \in 1..Len(all_solutions) :
                SubSeq(file.content,
                       LineStart(all_solutions, k) + 1,
                       LineStart(all_solutions, k) + Len(CsvLine(all_solutions[k])))
                  = CsvLine(all_solutions[k])
          /\ Len(all_solutions) > 0 =>
                Len(file.content) =
                   LineStart(all_solutions, Len(all_solutions))
                     + Len(CsvLine(all_solutions[Len(all_solutions)]))

\* A written file of two Records that come from two rows.
C2_Witness ==
    /\ pc = "done"
    /\ Len(all_solutions) = 2
    /\ origin[1][1] < origin[2][1]

\* C3: every Record's platform is the cleaned alt text of the header image
\* at the index of its platform column, its category and service are the
\* texts of the first two cells of its row; no Record comes from a column
\* without a header image.
C3_PlatformByPosition ==
    \A k \in 1..Len(all_solutions) :
       LET r == origin[k][1]
           c == origin[k][2]
       IN  /\ c >= 3
           /\ c - 2 <= Len(HeaderImgs)
           /\ all_solutions[k].platform = get_platform_name(HeaderImgs[c - 2].alt)
           /\ all_solutions[k].category = Cells(r)[1].text
           /\ all_solutions[k].service = Cells(r)[2].text

\* A Record has been emitted, and the scan then stopped at a text link in a
\* platform column that no header image covers.
C3_Witness ==
    /\ pc = "failed"
    /\ err = "IndexError"
    /\ Len(all_solutions) >= 1
    /\ \E r \in 1..DataRowCount :
          /\ Len(Cells(r)) - 2 > Len(HeaderImgs)
          /\ \E l \in 1..Len(Cells(r)[Len(Cells(r))].links) :
                Len(Cells(r)[Len(Cells(r))].links[l].text) > 0

\* The names under which C4 reads alt text as <name><ws><word>: the lengths
\* of <name>.
NameLengths(s) ==
    { k \in 0..Len(s) :
        \E w \in {Icon, Log, Logo} :
           /\ k < Len(s) - Len(w)
           /\ SubSeq(s, Len(s) - Len(w) + 1, Len(s)) = w
           /\ \A j \in (k + 1)..(Len(s) - Len(w)) : s[j] \in WhitespaceChars }

\* C4: get_platform_name returns <name> without trailing whitespace for
\* alt text <name><ws><word>, word one of Icon, Log, Logo at the end, and
\* the alt text itself otherwise.
C4_PlatformNameCleaned ==
    called =>
       IF NameLengths(alt_desc) # {}
       THEN platform_name =
              SubSeq(alt_desc, 1,
                     CHOOSE k \in NameLengths(alt_desc) :
                        \A y \in NameLengths(alt_desc) : k <= y)
       ELSE platform_name = alt_desc

\* C5: the written file is the header line, a newline, and the Records'
\* lines separated by newlines, with no newline after the last one.
C5_FileText ==
    pc = "done" =>
       file.content = HeaderLine \o <<"\n">> \o CsvLines(solutions, Len(solutions))

\* A written file of two Records, one with a comma in a field.
C5_Witness ==
    /\ pc = "done"
    /\ Len(solutions) = 2
    /\ \E k \in 1..2 : \E j \in 1..Len(solutions[k].service) :
          solutions[k].service[j] = ","

\* C6: the file is opened only after every row has been extracted without
\* an exception, and a failed run leaves it untouched.
C6_WriteAfterExtraction ==
    /\ file.opened =>
          /\ err = "none"
          /\ net = "ok" /\ html.hasTable
          /\ idx = DataRowCount
          /\ solutions = all_solutions
          /\ pc \in {"opened", "wrote_headers", "wrote_newline", "done"}
    /\ pc = "failed" => file = [opened |-> FALSE, content |-> <<>>]

\* A run that fails after it has extracted a Record.
C6_Witness ==
    /\ pc = "failed"
    /\ Len(all_solutions) >= 1
    /\ ~file.opened

\* The exceptions that signal a failed request.
NetworkErrors == {"ConnectionError", "Timeout", "HTTPError"}

\* C7: when the request fails (no connection, no answer, or a non-success
\* status) one GET is issued, the response is not parsed, the run ends with
\* a network error and the file is not created.
C7_FetchFailure ==
    (net # "ok" \/ status \notin 200..299) =>
       /\ gets <= 1
       /\ pc \in {"start", "requesting", "failed"}
       /\ pc = "failed" => err \in NetworkErrors
       /\ ~file.opened

\* C8: a page without the comparison table, or with a table of no rows,
\* ends the run with a StructureError and without a file.
C8_MissingTable ==
    (net = "ok" /\ (~html.hasTable \/ Len(Table) = 0)
       /\ pc \notin {"start", "requesting", "headers"}) =>
       /\ pc = "failed"
       /\ err = "StructureError"
       /\ ~file.opened

\* C9: a data row of fewer than two cells makes get_table_data raise a
\* StructureError and return no Records.
C9_ShortRow ==
    (DataFinished /\ \E r \in 1..DataRowCount : Len(Cells(r)) < 2) =>
       /\ pc = "failed"
       /\ err = "StructureError"
       /\ solutions = <<>>

\* C10: a hyperlink without href in a platform column of a data row, with
\* or without visible text, makes get_table_data raise a StructureError.
C10_MissingHref ==
    (DataFinished /\ \E r \in 1..DataRowCount : \E c \in 3..Len(Cells(r)) :
        \E l \in 1..Len(Cells(r)[c].links) : ~Cells(r)[c].links[l].hasHref) =>
       /\ pc = "failed"
       /\ err = "StructureError"

====
